---- MODULE Spec2Model ----
(***************************************************************************)
(* Model of openai_agent/agent.py: the OpenAIAgent conversation engine.    *)
(*                                                                         *)
(* A Python str is a sequence of characters (one-character TLA+ strings).  *)
(* The fixed literal text of the default templates is carried as single    *)
(* sequence elements holding that text; none of it contains ':' or         *)
(* leading/trailing text that names, messages or replies could overlap.    *)
(* Python's None is the value None below, distinct from every str.         *)
(* The Completion Provider (openai.Completion.create) is the environment:  *)
(* each call either raises or returns a first-candidate text.              *)
(***************************************************************************)
EXTENDS Integers, Sequences, FiniteSets, TLC

VARIABLES self, pre, calls, construct

vars == <<self, pre, calls, construct>>

(***************************************************************************)
(* Bounds and input domains                                                *)
(***************************************************************************)
MaxCalls == 3

None == <<"NoneType">>
ProviderFails == <<"ProviderError">>

HumanNames == {<<"A">>}
UserNameArgs == HumanNames \cup {None}
AgentNameArgs == {None, <<"c", "u">>}
AvailableEngines == {<<"d", "v">>, <<"c", "u">>}
EngineArgs == {<<"d", "v">>, <<"x">>}
Messages == {<<" ", "h", "i", "\n">>}
ReplyArgs == {None, <<" ", "r", " ">>}
ProviderTexts == {<<" ", "\n">>, <<" ", "k", "\n", "\n">>}
MaxLengthArgs == {0, 5}
NewAgentNames == {<<"Z">>}
ParamArgs == {<<"engine", <<"c", "u">> >>}
ParamsArgs == {[max_tokens |-> 7, n |-> 2]}
AttributeArgs == {<<"is_conversation_active", FALSE>>}
SeedTexts == {<<"A", ":", "h", "\n", "B", ":", "k", "\n">>}

(***************************************************************************)
(* Python built-ins used by the code                                       *)
(***************************************************************************)
EmptyStr == <<>>

\* truth value of `x` in `x or y`, `if x`: None and "" are falsy
Truthy(x) == x # None /\ x # EmptyStr

Or(x, y) == IF Truthy(x) THEN x ELSE y

\* str(x) as done by str.format and f-strings
Str(x) == IF x = None THEN <<"N", "o", "n", "e">> ELSE x

Whitespace == {" ", "\n", "\t"}

RECURSIVE lstrip(_)
lstrip(s) ==
  IF s # <<>> /\ Head(s) \in Whitespace THEN lstrip(Tail(s)) ELSE s

RECURSIVE rstrip(_)
rstrip(s) ==
  IF s # <<>> /\ s[Len(s)] \in Whitespace
  THEN rstrip(SubSeq(s, 1, Len(s) - 1))
  ELSE s

strip(s) == rstrip(lstrip(s))

\* re.sub("(\n)*$", "", s): drops every trailing newline
RECURSIVE sub_trailing_newlines(_)
sub_trailing_newlines(s) ==
  IF s # <<>> /\ s[Len(s)] = "\n"
  THEN sub_trailing_newlines(SubSeq(s, 1, Len(s) - 1))
  ELSE s

UpperChar(c) ==
  CASE c = "d" -> "D"
    [] c = "v" -> "V"
    [] c = "c" -> "C"
    [] c = "u" -> "U"
    [] OTHER -> c

upper(s) == [i \in DOMAIN s |-> UpperChar(s[i])]

MatchAt(pat, s, i) ==
  /\ i + Len(pat) - 1 <= Len(s)
  /\ SubSeq(s, i, i + Len(pat) - 1) = pat

\* len(re.findall(pat, s)) for a literal pattern: non-overlapping matches
\* found scanning left to right, from position i on
RECURSIVE findall_count(_, _, _)
findall_count(pat, s, i) ==
  IF i > Len(s) THEN 0
  ELSE IF MatchAt(pat, s, i)
       THEN 1 + findall_count(pat, s, i + Len(pat))
       ELSE findall_count(pat, s, i + 1)

IsPrefix(p, s) == Len(p) <= Len(s) /\ SubSeq(s, 1, Len(p)) = p

IsProperPrefix(p, s) == IsPrefix(p, s) /\ Len(p) < Len(s)

\* (max_response_length, the provider's answer) of a request for a reply:
\* the requests that give a length are the ones answered with visible text
Exchanges ==
  {x \in MaxLengthArgs \X (ProviderTexts \cup {ProviderFails}) :
     (x[1] # 0) <=> (x[2] # ProviderFails /\ strip(x[2]) # <<>>)}

(***************************************************************************)
(* Templates                                                               *)
(***************************************************************************)
START_HEAD ==
  "The following is a conversation with an AI. The AI is helpful, apolitical, clever, and very friendly. \nThe AI's name is "

START_MID == " and is talking with "

A_PERSON_NAMED == "a person named "

A_HUMAN == "a human"

HUMAN == <<"H", "U", "M", "A", "N">>

\* self.START_TEMPLATE.format(AGENT_NAME=..., USERNAME=...), default template
START_TEMPLATE(AGENT_NAME, USERNAME) ==
  <<START_HEAD>> \o Str(AGENT_NAME) \o <<START_MID>> \o Str(USERNAME)
    \o <<".", "\n">>

\* self.MSG_TEMPLATE.format(user_name=..., AGENT_NAME=..., MSG=...)
MSG_TEMPLATE(user_name, AGENT_NAME, MSG) ==
  Str(user_name) \o <<":">> \o Str(MSG) \o <<"\n">> \o Str(AGENT_NAME)
    \o <<":">>

(***************************************************************************)
(* The object.  self is the instance's __dict__; name is the entry that    *)
(* set_agent_name writes (None until then), which nothing reads because    *)
(* the class property `name` takes precedence over it.                     *)
(* conversation_start_time is a reading of the clock: the model's clock    *)
(* ticks once per reading.  completion_params keeps the keys engine,       *)
(* max_tokens and n; the sampling parameters are handled like n.           *)
(* A constructor call that raises binds no instance: NoInstance.           *)
(***************************************************************************)
NoInstance == [raised |-> "ValueError"]

\* __init__ that skips the check of the engine against the available ones
__init__unchecked(name, engine) ==
  [self |->
     [ _agent_name |-> IF Truthy(name) THEN name ELSE upper(engine),
       username |-> None,
       name |-> None,
       completion_params |-> [engine |-> engine, max_tokens |-> 150, n |-> 1],
       _conversation__ |-> None,
       conversation_start_time |-> 0,
       is_conversation_active |-> FALSE,
       __messages__ |-> <<>>,
       __replies__ |-> <<>> ],
   raised |-> ""]

__init__(name, engine) ==
  IF engine \notin AvailableEngines
  THEN [self |-> NoInstance, raised |-> "ValueError"]
  ELSE [self |->
          [ _agent_name |-> IF Truthy(name) THEN name ELSE upper(engine),
            username |-> None,
            name |-> None,
            completion_params |->
               [engine |-> engine, max_tokens |-> 150, n |-> 1],
            _conversation__ |-> None,
            conversation_start_time |-> 0,
            is_conversation_active |-> FALSE,
            __messages__ |-> <<>>,
            __replies__ |-> <<>> ],
        raised |-> ""]

conversation(s) == Or(s._conversation__, EmptyStr)

engine(s) == s.completion_params.engine

name(s) ==
  IF s._agent_name \notin AvailableEngines
  THEN s._agent_name
  ELSE upper(engine(s))

messages(s) == s.__messages__

replies(s) == s.__replies__

__len__(s) == findall_count(Str(s.username) \o <<":">>, conversation(s), 1)

(***************************************************************************)
(* Methods.  A method that returns a value or may raise yields a record:   *)
(* self is the object after the call, ret the value returned, raised the   *)
(* exception ("" when it returns).  prompt, stop and params are the        *)
(* arguments of the openai.Completion.create call (None, <<>>, NoParams    *)
(* when it is never made).  completion is the environment's answer to that *)
(* call: ProviderFails, or the text of choices[0].                         *)
(* An absent max_response_length is written 0: the code reads it only in   *)
(* `max_response_length or ...`, where None and 0 are both falsy.          *)
(***************************************************************************)
FrozenAttributes ==
  {"_conversation__", "conversation_start_time", "is_conversation_active"}

\* __setattr__ without the list of immutable attributes
__setattr__unguarded(s, attr, value) ==
  [self |-> [s EXCEPT ![attr] = value], raised |-> ""]

__setattr__(s, attr, value) ==
  IF attr \in FrozenAttributes
  THEN [self |-> s, raised |-> "AttributeError"]
  ELSE [self |-> [s EXCEPT ![attr] = value], raised |-> ""]

set_agent_name(s, nm) == __setattr__(s, "name", nm).self

set_agent_param(s, param, val) ==
  [s EXCEPT !.completion_params =
     [k \in DOMAIN @ \cup {param} |-> IF k = param THEN val ELSE @[k]]]

set_agent_params(s, params) ==
  [s EXCEPT !.completion_params =
     [k \in DOMAIN @ \cup DOMAIN params |->
        IF k \in DOMAIN params THEN params[k] ELSE @[k]]]

\* start_conversation that keeps the previous history in front of the template
start_conversation_keeps_history(s, user_name) ==
  [s EXCEPT
     !._conversation__ =
        conversation(s) \o
        START_TEMPLATE(name(s),
                       IF Truthy(user_name)
                       THEN <<A_PERSON_NAMED>> \o Str(user_name)
                       ELSE <<A_HUMAN>>),
     !.conversation_start_time = @ + 1,
     !.is_conversation_active = TRUE,
     !.username = Or(user_name, HUMAN)]

start_conversation(s, user_name) ==
  [s EXCEPT
     !._conversation__ =
        START_TEMPLATE(name(s),
                       IF Truthy(user_name)
                       THEN <<A_PERSON_NAMED>> \o Str(user_name)
                       ELSE <<A_HUMAN>>),
     !.conversation_start_time = @ + 1,
     !.is_conversation_active = TRUE,
     !.username = Or(user_name, HUMAN)]

\* set_conversation that also marks the conversation active
set_conversation_activates(s, text) ==
  [s EXCEPT !._conversation__ = text, !.is_conversation_active = TRUE]

set_conversation(s, text) == [s EXCEPT !._conversation__ = text]

make_chat_prompt(s, msg, username, continue_conversation) ==
  LET username1 == Or(username, s.username)
      s1 == IF ~s.is_conversation_active \/ ~continue_conversation
            THEN start_conversation(s, None)
            ELSE s
  IN  [self |-> s1, ret |-> MSG_TEMPLATE(username1, name(s1), strip(msg))]

\* update_conversation that assigns the new turn instead of appending it
update_conversation_overwrites(s, msg, reply) ==
  LET reply1 == Or(reply, EmptyStr)
      p == make_chat_prompt(s, msg, None, TRUE)
  IN  [p.self EXCEPT
         !._conversation__ = p.ret \o strip(reply1) \o <<"\n">>,
         !.__messages__ = Append(@, msg),
         !.__replies__ = IF Truthy(reply1) THEN Append(@, reply1) ELSE @]

\* update_conversation without the `if reply:` guard on the reply log
update_conversation_logs_every_reply(s, msg, reply) ==
  LET reply1 == Or(reply, EmptyStr)
      left == conversation(s)
      p == make_chat_prompt(s, msg, None, TRUE)
  IN  [p.self EXCEPT
         !._conversation__ = left \o p.ret \o strip(reply1) \o <<"\n">>,
         !.__messages__ = Append(@, msg),
         !.__replies__ = Append(@, reply1)]

\* update_conversation that logs the message only when it is non-empty
update_conversation_skips_empty_message(s, msg, reply) ==
  LET reply1 == Or(reply, EmptyStr)
      left == conversation(s)
      p == make_chat_prompt(s, msg, None, TRUE)
  IN  [p.self EXCEPT
         !._conversation__ = left \o p.ret \o strip(reply1) \o <<"\n">>,
         !.__messages__ = IF Truthy(msg) THEN Append(@, msg) ELSE @,
         !.__replies__ = IF Truthy(reply1) THEN Append(@, reply1) ELSE @]

update_conversation(s, msg, reply) ==
  LET reply1 == Or(reply, EmptyStr)
      left == conversation(s)
      p == make_chat_prompt(s, msg, None, TRUE)
  IN  [p.self EXCEPT
         !._conversation__ = left \o p.ret \o strip(reply1) \o <<"\n">>,
         !.__messages__ = Append(@, msg),
         !.__replies__ = IF Truthy(reply1) THEN Append(@, reply1) ELSE @]

send_message(s, msg) == update_conversation(s, msg, None)

NoParams == [engine |-> None, max_tokens |-> 0, n |-> 0]

\* `x or y` for the integer max_response_length
OrInt(x, y) == IF x = 0 THEN y ELSE x

\* get_completion that updates self.completion_params instead of a copy
get_completion_updates_stored(s, prompt, stop, max_tokens) ==
  LET params == [s.completion_params EXCEPT !.max_tokens = max_tokens]
  IN  [self |-> [s EXCEPT !.completion_params = params],
       prompt |-> prompt, stop |-> stop, params |-> params]

\* the call made to openai.Completion.create; self is left as it was
get_completion(s, prompt, stop, max_tokens) ==
  LET params == s.completion_params
      params1 == [params EXCEPT !.max_tokens = @]
      params2 == [params1 EXCEPT !.max_tokens = max_tokens]
  IN  [self |-> s, prompt |-> prompt, stop |-> stop, params |-> params2]

\* get_reply that only removes the trailing newlines of the provider text
get_reply_keeps_spaces(s, msg, max_response_length, completion) ==
  LET p == IF Truthy(msg)
           THEN make_chat_prompt(s, msg, None, TRUE)
           ELSE [self |-> s, ret |-> conversation(s)]
      msg1 == IF Truthy(msg) THEN msg ELSE EmptyStr
      s1 == p.self
      user_name == Or(s1.username, HUMAN)
      g == get_completion(s1, conversation(s1) \o p.ret,
                          <<user_name \o <<":">>, name(s1) \o <<":">> >>,
                          OrInt(max_response_length,
                                s1.completion_params.max_tokens))
      reply_txt == sub_trailing_newlines(completion)
  IN  IF completion = ProviderFails
      THEN [self |-> g.self, ret |-> None, raised |-> "ProviderError",
            prompt |-> g.prompt, stop |-> g.stop, params |-> g.params]
      ELSE [self |-> update_conversation(g.self, msg1, reply_txt),
            ret |-> reply_txt, raised |-> "",
            prompt |-> g.prompt, stop |-> g.stop, params |-> g.params]

\* get_reply that records the human turn before asking the provider
get_reply_records_turn_first(s, msg, max_response_length, completion) ==
  LET p == IF Truthy(msg)
           THEN make_chat_prompt(s, msg, None, TRUE)
           ELSE [self |-> s, ret |-> conversation(s)]
      msg1 == IF Truthy(msg) THEN msg ELSE EmptyStr
      s1 == p.self
      user_name == Or(s1.username, HUMAN)
      g == get_completion(s1, conversation(s1) \o p.ret,
                          <<user_name \o <<":">>, name(s1) \o <<":">> >>,
                          OrInt(max_response_length,
                                s1.completion_params.max_tokens))
      reply_txt == sub_trailing_newlines(strip(completion))
  IN  IF completion = ProviderFails
      THEN [self |-> update_conversation(g.self, msg1, None),
            ret |-> None, raised |-> "ProviderError",
            prompt |-> g.prompt, stop |-> g.stop, params |-> g.params]
      ELSE [self |-> update_conversation(g.self, msg1, reply_txt),
            ret |-> reply_txt, raised |-> "",
            prompt |-> g.prompt, stop |-> g.stop, params |-> g.params]

\* get_reply that builds the stop sequences from the default human name
get_reply_default_name_stop(s, msg, max_response_length, completion) ==
  LET p == IF Truthy(msg)
           THEN make_chat_prompt(s, msg, None, TRUE)
           ELSE [self |-> s, ret |-> conversation(s)]
      msg1 == IF Truthy(msg) THEN msg ELSE EmptyStr
      s1 == p.self
      user_name == HUMAN
      g == get_completion(s1, conversation(s1) \o p.ret,
                          <<user_name \o <<":">>, name(s1) \o <<":">> >>,
                          OrInt(max_response_length,
                                s1.completion_params.max_tokens))
      reply_txt == sub_trailing_newlines(strip(completion))
  IN  IF completion = ProviderFails
      THEN [self |-> g.self, ret |-> None, raised |-> "ProviderError",
            prompt |-> g.prompt, stop |-> g.stop, params |-> g.params]
      ELSE [self |-> update_conversation(g.self, msg1, reply_txt),
            ret |-> reply_txt, raised |-> "",
            prompt |-> g.prompt, stop |-> g.stop, params |-> g.params]

get_reply(s, msg, max_response_length, completion) ==
  LET p == IF Truthy(msg)
           THEN make_chat_prompt(s, msg, None, TRUE)
           ELSE [self |-> s, ret |-> conversation(s)]
      msg1 == IF Truthy(msg) THEN msg ELSE EmptyStr
      s1 == p.self
      user_name == Or(s1.username, HUMAN)
      g == get_completion(s1, conversation(s1) \o p.ret,
                          <<user_name \o <<":">>, name(s1) \o <<":">> >>,
                          OrInt(max_response_length,
                                s1.completion_params.max_tokens))
      reply_txt == sub_trailing_newlines(strip(completion))
  IN  IF completion = ProviderFails
      THEN [self |-> g.self, ret |-> None, raised |-> "ProviderError",
            prompt |-> g.prompt, stop |-> g.stop, params |-> g.params]
      ELSE [self |-> update_conversation(g.self, msg1, reply_txt),
            ret |-> reply_txt, raised |-> "",
            prompt |-> g.prompt, stop |-> g.stop, params |-> g.params]

\* get_single_reply that renders its prompt with continue_conversation=True
get_single_reply_continues(s, msg, max_response_length, user_name, completion) ==
  LET user_name1 == Or(user_name, s.username)
      p == make_chat_prompt(s, msg, None, TRUE)
      s1 == p.self
      g == get_completion(s1, p.ret,
                          <<user_name1 \o <<":">>, name(s1) \o <<":">> >>,
                          OrInt(max_response_length,
                                s1.completion_params.max_tokens))
  IN  IF user_name1 = None
      THEN [self |-> s1, ret |-> None, raised |-> "TypeError",
            prompt |-> None, stop |-> <<>>, params |-> NoParams]
      ELSE IF completion = ProviderFails
      THEN [self |-> g.self, ret |-> None, raised |-> "ProviderError",
            prompt |-> g.prompt, stop |-> g.stop, params |-> g.params]
      ELSE [self |-> g.self, ret |-> completion, raised |-> "",
            prompt |-> g.prompt, stop |-> g.stop, params |-> g.params]

get_single_reply(s, msg, max_response_length, user_name, completion) ==
  LET user_name1 == Or(user_name, s.username)
      p == make_chat_prompt(s, msg, None, FALSE)
      s1 == p.self
      g == get_completion(s1, p.ret,
                          <<user_name1 \o <<":">>, name(s1) \o <<":">> >>,
                          OrInt(max_response_length,
                                s1.completion_params.max_tokens))
  IN  IF user_name1 = None
      THEN [self |-> s1, ret |-> None, raised |-> "TypeError",
            prompt |-> None, stop |-> <<>>, params |-> NoParams]
      ELSE IF completion = ProviderFails
      THEN [self |-> g.self, ret |-> None, raised |-> "ProviderError",
            prompt |-> g.prompt, stop |-> g.stop, params |-> g.params]
      ELSE [self |-> g.self, ret |-> completion, raised |-> "",
            prompt |-> g.prompt, stop |-> g.stop, params |-> g.params]

(***************************************************************************)
(* The state machine: one action per public operation.  construct holds    *)
(* the constructor's arguments and outcome; calls is the history of the    *)
(* calls made since (arguments, outcome, what reached the provider,        *)
(* whether the call (re)started the conversation and the agent name after  *)
(* it); pre is the object as it was before the latest call.                *)
(***************************************************************************)
NoCall ==
  [op |-> "", msg |-> None, user_name |-> None, reply |-> None,
   continue_conversation |-> TRUE, max_response_length |-> 0,
   completion |-> None, attr |-> "", value |-> None,
   raised |-> "", ret |-> None, prompt |-> None, stop |-> <<>>,
   params |-> NoParams, started |-> FALSE, agent_name |-> None]

Constructed == construct.raised = ""

\* the record of call c, which took the object from s to s2
Observed(s, s2, c) ==
  [c EXCEPT
     !.started = s2.conversation_start_time # s.conversation_start_time,
     !.agent_name = name(s2)]

Init ==
  /\ \E nm \in AgentNameArgs, e \in EngineArgs :
        LET r == __init__(nm, e)
        IN  /\ self = r.self
            /\ construct = [name |-> nm, engine |-> e, raised |-> r.raised]
  /\ pre = self
  /\ calls = <<>>

StartConversation ==
  \E h \in UserNameArgs :
     /\ Constructed
     /\ Len(calls) < MaxCalls
     /\ self' = start_conversation(self, h)
     /\ pre' = self
     /\ calls' = Append(calls,
                        Observed(self, self',
                                 [NoCall EXCEPT !.op = "StartConversation",
                                                !.user_name = h]))
     /\ UNCHANGED construct

SetConversation ==
  \E text \in SeedTexts :
     /\ Constructed
     /\ Len(calls) < MaxCalls
     /\ self' = set_conversation(self, text)
     /\ pre' = self
     /\ calls' = Append(calls,
                        Observed(self, self',
                                 [NoCall EXCEPT !.op = "SetConversation",
                                                !.msg = text]))
     /\ UNCHANGED construct

RenderTurnPrefix ==
  \E m \in Messages, h \in UserNameArgs, c \in BOOLEAN :
     LET r == make_chat_prompt(self, m, h, c)
     IN  /\ Constructed
         /\ Len(calls) < MaxCalls
         /\ self' = r.self
         /\ pre' = self
         /\ calls' = Append(calls,
                            Observed(self, self',
                              [NoCall EXCEPT !.op = "RenderTurnPrefix",
                                             !.msg = m, !.user_name = h,
                                             !.continue_conversation = c,
                                             !.ret = r.ret]))
         /\ UNCHANGED construct

RequestReply ==
  \E m \in Messages \cup {None}, x \in Exchanges :
     LET r == get_reply(self, m, x[1], x[2])
     IN  /\ Constructed
         /\ Len(calls) < MaxCalls
         /\ self' = r.self
         /\ pre' = self
         /\ calls' = Append(calls,
                            Observed(self, self',
                              [NoCall EXCEPT !.op = "RequestReply",
                                             !.msg = m,
                                             !.max_response_length = x[1],
                                             !.completion = x[2],
                                             !.raised = r.raised,
                                             !.ret = r.ret,
                                             !.prompt = r.prompt,
                                             !.stop = r.stop,
                                             !.params = r.params]))
         /\ UNCHANGED construct

SendMessage ==
  \E m \in Messages :
     /\ Constructed
     /\ Len(calls) < MaxCalls
     /\ self' = send_message(self, m)
     /\ pre' = self
     /\ calls' = Append(calls,
                        Observed(self, self',
                                 [NoCall EXCEPT !.op = "SendMessage",
                                                !.msg = m]))
     /\ UNCHANGED construct

UpdateConversation ==
  \E m \in Messages, rp \in ReplyArgs :
     /\ Constructed
     /\ Len(calls) < MaxCalls
     /\ self' = update_conversation(self, m, rp)
     /\ pre' = self
     /\ calls' = Append(calls,
                        Observed(self, self',
                                 [NoCall EXCEPT !.op = "UpdateConversation",
                                                !.msg = m, !.reply = rp]))
     /\ UNCHANGED construct

RequestSingleReply ==
  \E m \in Messages, h \in UserNameArgs, x \in Exchanges :
     LET r == get_single_reply(self, m, x[1], h, x[2])
     IN  /\ Constructed
         /\ Len(calls) < MaxCalls
         /\ self' = r.self
         /\ pre' = self
         /\ calls' = Append(calls,
                            Observed(self, self',
                              [NoCall EXCEPT !.op = "RequestSingleReply",
                                             !.msg = m, !.user_name = h,
                                             !.max_response_length = x[1],
                                             !.completion = x[2],
                                             !.raised = r.raised,
                                             !.ret = r.ret,
                                             !.prompt = r.prompt,
                                             !.stop = r.stop,
                                             !.params = r.params]))
         /\ UNCHANGED construct

SetAgentName ==
  \E nm \in NewAgentNames :
     /\ Constructed
     /\ Len(calls) < MaxCalls
     /\ self' = set_agent_name(self, nm)
     /\ pre' = self
     /\ calls' = Append(calls,
                        Observed(self, self',
                                 [NoCall EXCEPT !.op = "SetAgentName",
                                                !.value = nm]))
     /\ UNCHANGED construct

SetAgentParam ==
  \E pv \in ParamArgs :
     /\ Constructed
     /\ Len(calls) < MaxCalls
     /\ self' = set_agent_param(self, pv[1], pv[2])
     /\ pre' = self
     /\ calls' = Append(calls,
                        Observed(self, self',
                                 [NoCall EXCEPT !.op = "SetAgentParam",
                                                !.attr = pv[1],
                                                !.value = pv[2]]))
     /\ UNCHANGED construct

SetAgentParams ==
  \E ps \in ParamsArgs :
     /\ Constructed
     /\ Len(calls) < MaxCalls
     /\ self' = set_agent_params(self, ps)
     /\ pre' = self
     /\ calls' = Append(calls,
                        Observed(self, self',
                                 [NoCall EXCEPT !.op = "SetAgentParams",
                                                !.value = ps]))
     /\ UNCHANGED construct

\* an assignment `agent.<attr> = value` made by the caller
SetAttribute ==
  \E av \in AttributeArgs :
     LET r == __setattr__(self, av[1], av[2])
     IN  /\ Constructed
         /\ Len(calls) < MaxCalls
         /\ self' = r.self
         /\ pre' = self
         /\ calls' = Append(calls,
                            Observed(self, self',
                              [NoCall EXCEPT !.op = "SetAttribute",
                                             !.attr = av[1],
                                             !.value = av[2],
                                             !.raised = r.raised]))
         /\ UNCHANGED construct

Next ==
  \/ StartConversation
  \/ SetConversation
  \/ RenderTurnPrefix
  \/ RequestReply
  \/ SendMessage
  \/ UpdateConversation
  \/ RequestSingleReply
  \/ SetAgentName
  \/ SetAgentParam
  \/ SetAgentParams
  \/ SetAttribute

Spec == Init /\ [][Next]_vars

TypeOK ==
  /\ Len(calls) <= MaxCalls
  /\ Constructed => self.is_conversation_active \in BOOLEAN

(***************************************************************************)
(* Vocabulary of the properties                                            *)
(***************************************************************************)
Made == calls # <<>>

Last == calls[Len(calls)]

Returned(c) == c.raised = ""

NoSetConversation == \A i \in DOMAIN calls : calls[i].op # "SetConversation"

\* the transcript start_conversation(user_name) leaves on an engine named as s
RenderedStart(s, user_name) ==
  START_TEMPLATE(name(s),
                 IF user_name = None
                 THEN <<A_HUMAN>>
                 ELSE <<A_PERSON_NAMED>> \o user_name)

ResolvedHumanName(user_name) == IF user_name = None THEN HUMAN ELSE user_name

HasColon(x) == x # None /\ \E i \in DOMAIN x : x[i] = ":"

(***************************************************************************)
(* C1: with no SetConversation among the calls, an active conversation's   *)
(* transcript begins with the rendered start template.  The claim names    *)
(* the rendering of the most recent start; the formula asks only that the  *)
(* transcript begin with the start template rendered for some human name,  *)
(* which the claim implies.                                                *)
(***************************************************************************)
C1_ActiveBeginsWithStart ==
  (Constructed /\ self.is_conversation_active /\ NoSetConversation)
    => \E h \in UserNameArgs : IsPrefix(RenderedStart(self, h), conversation(self))

(***************************************************************************)
(* C2: every UpdateConversation / SendMessage step, from any reachable     *)
(* state (a fresh, inactive engine included), leaves a transcript of which *)
(* the transcript before the step is a proper prefix; so along any run of  *)
(* such calls the transcript after call N is a proper prefix of the        *)
(* transcript after call N+1.                                              *)
(***************************************************************************)
C2_AppendOnly ==
  [][ (calls' # calls
        /\ calls'[Len(calls')].op \in {"UpdateConversation", "SendMessage"})
      => IsProperPrefix(conversation(self), conversation(self')) ]_vars

\* two such calls in a row on a fresh engine, after a seeded transcript
C2_Witness ==
  /\ Len(calls) = 3
  /\ calls[1].op = "SetConversation"
  /\ calls[2].op = "SendMessage"
  /\ calls[3].op = "UpdateConversation"
  /\ IsProperPrefix(calls[1].msg, conversation(pre))
  /\ IsProperPrefix(conversation(pre), conversation(self))

(***************************************************************************)
(* C3 (as stated): after a RequestReply or RequestSingleReply whose        *)
(* provider call fails, the transcript equals the transcript before the    *)
(* call, whatever the state before.                                        *)
(***************************************************************************)
C3_FailedCallKeepsTranscript ==
  (Made /\ Last.raised = "ProviderError")
    => conversation(self) = conversation(pre)

(***************************************************************************)
(* C3 (amended): a failed provider call appends no turn and leaves both    *)
(* logs alone.  The transcript is the one before the call when the call is *)
(* RequestReply on an active conversation or RequestReply without a        *)
(* message; after a failed RequestReply(message) on an inactive            *)
(* conversation and after any failed RequestSingleReply it is exactly the  *)
(* start template rendered for "a human".                                  *)
(***************************************************************************)
C3_FailedCallAppendsNothing ==
  (Made /\ Last.raised = "ProviderError")
    => /\ messages(self) = messages(pre)
       /\ replies(self) = replies(pre)
       /\ conversation(self) =
            IF /\ Last.op = "RequestReply"
               /\ (pre.is_conversation_active \/ ~Truthy(Last.msg))
            THEN conversation(pre)
            ELSE RenderedStart(pre, None)

\* a failed RequestReply(message) on an active conversation with history
C3_Witness ==
  /\ Made
  /\ Last.op = "RequestReply"
  /\ Last.raised = "ProviderError"
  /\ Truthy(Last.msg)
  /\ pre.is_conversation_active
  /\ messages(pre) # <<>>
  /\ conversation(self) = conversation(pre)

(***************************************************************************)
(* C4 (as stated): a RequestReply that returns appends exactly the message *)
(* to the message log and exactly the returned reply to the reply log, for *)
(* every provider text; SendMessage appends the message to the message log *)
(* and leaves the reply log unchanged.                                     *)
(***************************************************************************)
C4_Lockstep ==
  /\ (Made /\ Last.op = "RequestReply" /\ Returned(Last))
       => /\ messages(self) = Append(messages(pre), Or(Last.msg, EmptyStr))
          /\ replies(self) = Append(replies(pre), Last.ret)
  /\ (Made /\ Last.op = "SendMessage")
       => /\ messages(self) = Append(messages(pre), Last.msg)
          /\ replies(self) = replies(pre)

(***************************************************************************)
(* C4 (amended): a RequestReply that returns appends exactly the message   *)
(* to the message log; it appends the returned reply to the reply log when *)
(* that reply is non-empty and leaves the reply log unchanged when the     *)
(* provider text is empty or only whitespace/newlines.  SendMessage        *)
(* appends the message to the message log and leaves the reply log         *)
(* unchanged.                                                              *)
(***************************************************************************)
C4_LockstepNonEmptyReply ==
  /\ (Made /\ Last.op = "RequestReply" /\ Returned(Last))
       => /\ messages(self) = Append(messages(pre), Or(Last.msg, EmptyStr))
          /\ replies(self) = IF Last.ret = EmptyStr
                             THEN replies(pre)
                             ELSE Append(replies(pre), Last.ret)
  /\ (Made /\ Last.op = "SendMessage")
       => /\ messages(self) = Append(messages(pre), Last.msg)
          /\ replies(self) = replies(pre)

\* a RequestReply(message) with a non-empty reply, right after a SendMessage
C4_Witness ==
  /\ Len(calls) >= 2
  /\ calls[Len(calls) - 1].op = "SendMessage"
  /\ Last.op = "RequestReply"
  /\ Returned(Last)
  /\ Truthy(Last.msg)
  /\ Last.ret # EmptyStr
  /\ Len(messages(self)) = Len(replies(self)) + 1

(***************************************************************************)
(* C5 (as stated): after StartConversation(h) with a non-empty h, followed *)
(* only by RequestReply, SendMessage, UpdateConversation and               *)
(* RequestSingleReply calls, every RequestReply passes the stop sequences  *)
(* [h + ":", a + ":"] to the provider, a being the agent name.             *)
(***************************************************************************)
TurnOps ==
  {"RequestReply", "SendMessage", "UpdateConversation", "RequestSingleReply"}

\* call i is StartConversation(h), h non-empty, and only TurnOps follow it
StartedThenTurns(i) ==
  /\ i \in 1 .. Len(calls) - 1
  /\ calls[i].op = "StartConversation"
  /\ Truthy(calls[i].user_name)
  /\ \A j \in i + 1 .. Len(calls) : calls[j].op \in TurnOps

SingleReplySince(i) ==
  \E j \in i + 1 .. Len(calls) : calls[j].op = "RequestSingleReply"

C5_StopSequences ==
  \A i \in DOMAIN calls :
     (StartedThenTurns(i) /\ Last.op = "RequestReply")
       => Last.stop = << calls[i].user_name \o <<":">>,
                         name(self) \o <<":">> >>

(***************************************************************************)
(* C5 (amended): after StartConversation(h) with a non-empty h, followed   *)
(* only by RequestReply, SendMessage, UpdateConversation and               *)
(* RequestSingleReply calls, every RequestReply passes [h + ":", a + ":"]  *)
(* as long as no RequestSingleReply has been made since the start; once a  *)
(* RequestSingleReply has been made it passes ["HUMAN:", a + ":"].         *)
(***************************************************************************)
C5_StopSequencesUntilSingleReply ==
  \A i \in DOMAIN calls :
     (StartedThenTurns(i) /\ Last.op = "RequestReply")
       => Last.stop =
            << (IF SingleReplySince(i) THEN HUMAN ELSE calls[i].user_name)
                  \o <<":">>,
               name(self) \o <<":">> >>

\* StartConversation("A"), a silent turn, then a RequestReply stopping at "A:"
C5_Witness ==
  /\ Len(calls) = 3
  /\ StartedThenTurns(1)
  /\ calls[1].user_name = <<"A">>
  /\ calls[2].op = "SendMessage"
  /\ Last.op = "RequestReply"
  /\ Last.stop[1] = <<"A", ":">>

(***************************************************************************)
(* C6: RenderTurnPrefix(message, humanName, continueConversation) on an    *)
(* inactive conversation, or with continueConversation false, leaves the   *)
(* transcript equal to the start template rendered for humanName and the   *)
(* recorded human name equal to humanName (or "HUMAN" when absent), and    *)
(* returns the message template rendered with that resolved human name,    *)
(* the agent name and the trimmed message.                                 *)
(***************************************************************************)
C6_RenderTurnPrefixStarts ==
  (/\ Made
   /\ Last.op = "RenderTurnPrefix"
   /\ (~pre.is_conversation_active \/ ~Last.continue_conversation))
    => /\ conversation(self) = RenderedStart(pre, Last.user_name)
       /\ self.username = ResolvedHumanName(Last.user_name)
       /\ Last.ret = MSG_TEMPLATE(ResolvedHumanName(Last.user_name),
                                  name(self), strip(Last.msg))

(***************************************************************************)
(* C7: RequestReply without a message sends the provider exactly the       *)
(* current transcript as the prompt, and logs the empty string as the      *)
(* message.                                                                *)
(***************************************************************************)
C7_NoMessagePrompt ==
  (Made /\ Last.op = "RequestReply" /\ ~Truthy(Last.msg))
    => /\ Last.prompt = conversation(pre)
       /\ Returned(Last) => messages(self) = Append(messages(pre), EmptyStr)

(***************************************************************************)
(* C8: RequestSingleReply leaves the message log and the reply log         *)
(* unchanged and appends nothing to the transcript: afterwards the         *)
(* transcript is exactly the start template freshly rendered (for "a       *)
(* human"), whatever the history before, and the value returned is the     *)
(* provider's first-candidate text as it came.                             *)
(***************************************************************************)
C8_SingleReplyFrame ==
  (Made /\ Last.op = "RequestSingleReply")
    => /\ messages(self) = messages(pre)
       /\ replies(self) = replies(pre)
       /\ conversation(self) = START_TEMPLATE(name(pre), <<A_HUMAN>>)
       /\ Returned(Last) => Last.ret = Last.completion

\* a RequestSingleReply that returns, on an active conversation with a turn
C8_Witness ==
  /\ Made
  /\ Last.op = "RequestSingleReply"
  /\ Returned(Last)
  /\ Last.ret # strip(Last.ret)
  /\ pre.is_conversation_active
  /\ messages(pre) # <<>>
  /\ replies(pre) # <<>>
  /\ conversation(pre) # conversation(self)

(***************************************************************************)
(* C9: when the calls so far are a StartConversation (or nothing, on a     *)
(* fresh engine that starts lazily) followed by k turn-appending calls     *)
(* (RequestReply with a message, SendMessage, UpdateConversation), none of *)
(* whose texts contains a speaker label, Length returns k.                 *)
(***************************************************************************)
TurnAppending(c) ==
  /\ \/ c.op \in {"SendMessage", "UpdateConversation"}
     \/ c.op = "RequestReply" /\ Truthy(c.msg) /\ Returned(c)
  /\ ~HasColon(c.msg)
  /\ ~HasColon(c.reply)
  /\ ~HasColon(c.completion)

C9_LengthCountsTurns ==
  \A i \in 0 .. Len(calls) :
     (/\ Constructed
      /\ i > 0 => calls[i].op = "StartConversation"
      /\ \A j \in i + 1 .. Len(calls) : TurnAppending(calls[j]))
       => __len__(self) = Len(calls) - i

(***************************************************************************)
(* C10: StartConversation(humanName?) leaves the transcript equal to       *)
(* exactly the start template rendered with the agent name and "a person   *)
(* named {humanName}" ("a human" when humanName is absent), whatever the   *)
(* transcript before; the conversation is active and the recorded human    *)
(* name is humanName, or "HUMAN" when absent.  A second call with the same *)
(* argument right after the first leaves the same transcript.              *)
(***************************************************************************)
C10_StartConversation ==
  /\ (Made /\ Last.op = "StartConversation")
       => /\ conversation(self) =
               START_TEMPLATE(name(pre),
                              IF Last.user_name = None
                              THEN <<A_HUMAN>>
                              ELSE <<A_PERSON_NAMED>> \o Last.user_name)
          /\ self.is_conversation_active
          /\ self.username = ResolvedHumanName(Last.user_name)
  /\ (/\ Len(calls) >= 2
      /\ Last.op = "StartConversation"
      /\ calls[Len(calls) - 1].op = "StartConversation"
      /\ calls[Len(calls) - 1].user_name = Last.user_name)
       => conversation(self) = conversation(pre)

\* StartConversation("A") twice in a row on a conversation with history
C10_Witness ==
  /\ Len(calls) = 3
  /\ calls[1].op = "UpdateConversation"
  /\ calls[2].op = "StartConversation"
  /\ calls[3].op = calls[2].op
  /\ calls[3].user_name = calls[2].user_name
  /\ calls[3].user_name = <<"A">>
  /\ conversation(self) = conversation(pre)
  /\ messages(self) # <<>>

(***************************************************************************)
(* C11: SetConversation(text) makes the transcript exactly text and leaves *)
(* the activity flag, the recorded human name, the message log, the reply  *)
(* log and the generation parameters as they were.                         *)
(***************************************************************************)
C11_SetConversationFrame ==
  (Made /\ Last.op = "SetConversation")
    => /\ conversation(self) = Last.msg
       /\ self.is_conversation_active = pre.is_conversation_active
       /\ self.username = pre.username
       /\ messages(self) = messages(pre)
       /\ replies(self) = replies(pre)
       /\ self.completion_params = pre.completion_params

\* SetConversation on an inactive engine that already holds a logged turn
C11_Witness ==
  /\ Made
  /\ Last.op = "SetConversation"
  /\ ~pre.is_conversation_active
  /\ ~self.is_conversation_active
  /\ conversation(pre) # conversation(self)
  /\ conversation(self) = Last.msg

(***************************************************************************)
(* C13 (as stated): for every provider text t, RequestReply returns t with *)
(* its leading and trailing whitespace removed, appends that same value to *)
(* the reply log and appends it, followed by one newline, to the           *)
(* transcript right after the agent label.                                 *)
(***************************************************************************)
IsSuffix(x, s) ==
  Len(x) <= Len(s) /\ SubSeq(s, Len(s) - Len(x) + 1, Len(s)) = x

Trimmed(x, t) ==
  /\ x = strip(t)
  /\ x # <<>> => (x[1] \notin Whitespace /\ x[Len(x)] \notin Whitespace)

C13_TrimCorrectness ==
  (Made /\ Last.op = "RequestReply" /\ Returned(Last))
    => /\ Trimmed(Last.ret, Last.completion)
       /\ replies(self) = Append(replies(pre), Last.ret)
       /\ IsSuffix(name(self) \o <<":">> \o Last.ret \o <<"\n">>,
                   conversation(self))

(***************************************************************************)
(* C13 (amended): for every provider text t, RequestReply returns t with   *)
(* its leading and trailing whitespace removed and appends that value,     *)
(* followed by one newline, to the transcript right after the agent label; *)
(* it appends that same value to the reply log when it is non-empty and    *)
(* appends nothing to the reply log when t is empty or only whitespace.    *)
(***************************************************************************)
C13_TrimCorrectnessNonEmpty ==
  (Made /\ Last.op = "RequestReply" /\ Returned(Last))
    => /\ Trimmed(Last.ret, Last.completion)
       /\ replies(self) = IF Last.ret = EmptyStr
                          THEN replies(pre)
                          ELSE Append(replies(pre), Last.ret)
       /\ IsSuffix(name(self) \o <<":">> \o Last.ret \o <<"\n">>,
                   conversation(self))

\* a provider text padded with a space and two newlines, returned trimmed
C13_Witness ==
  /\ Made
  /\ Last.op = "RequestReply"
  /\ Returned(Last)
  /\ Last.completion = <<" ", "k", "\n", "\n">>
  /\ Last.ret = <<"k">>
  /\ replies(self) = Append(replies(pre), <<"k">>)

(***************************************************************************)
(* C16: after a RequestReply(message) that returns, from any state before  *)
(* (a fresh engine included), the transcript equals the prompt that was    *)
(* sent to the provider followed by the cleaned reply and one newline.     *)
(***************************************************************************)
C16_PromptTranscriptConsistency ==
  (Made /\ Last.op = "RequestReply" /\ Truthy(Last.msg) /\ Returned(Last))
    => conversation(self) = Last.prompt \o Last.ret \o <<"\n">>

(***************************************************************************)
(* C17: when SetConversation(text) is followed by RequestReply(message),   *)
(* SendMessage(message) or UpdateConversation(message, reply), text is a   *)
(* prefix of the transcript after that call and, for RequestReply, of the  *)
(* prompt sent to the provider.                                            *)
(***************************************************************************)
C17_SeededTranscriptSurvives ==
  (/\ Len(calls) >= 2
   /\ calls[Len(calls) - 1].op = "SetConversation"
   /\ \/ Last.op \in {"SendMessage", "UpdateConversation"}
      \/ Last.op = "RequestReply" /\ Truthy(Last.msg))
    => /\ IsPrefix(calls[Len(calls) - 1].msg, conversation(self))
       /\ Last.op = "RequestReply"
            => IsPrefix(calls[Len(calls) - 1].msg, Last.prompt)

(***************************************************************************)
(* C18: RequestReply and RequestSingleReply with a string message always   *)
(* reach the Completion Provider: they return or end in a provider error,  *)
(* never in an error raised before the provider is called.                 *)
(***************************************************************************)
C18_OnlyProviderErrors ==
  (/\ Made
   /\ Last.op \in {"RequestReply", "RequestSingleReply"}
   /\ Truthy(Last.msg))
    => /\ Last.raised \in {"", "ProviderError"}
       /\ Last.prompt # None

(***************************************************************************)
(* C12: the activity flag is false at construction; a call that finds it   *)
(* false leaves it true only if start_conversation ran during the call     *)
(* (the start time was read again), which only StartConversation and the   *)
(* operations that render a turn prefix can do; a call that finds it true  *)
(* leaves it true.                                                         *)
(***************************************************************************)
StartingOps == TurnOps \cup {"StartConversation", "RenderTurnPrefix"}

C12_ActivityFlag ==
  Constructed =>
    /\ ~Made => ~self.is_conversation_active
    /\ Made =>
         /\ pre.is_conversation_active => self.is_conversation_active
         /\ (~pre.is_conversation_active /\ self.is_conversation_active)
              => /\ self.conversation_start_time
                      # pre.conversation_start_time
                 /\ Last.op \in StartingOps

\* the flag was raised by a lazy start and survived an attempt to clear it
C12_Witness ==
  /\ Len(calls) >= 2
  /\ calls[1].op = "RenderTurnPrefix"
  /\ calls[1].started
  /\ Last.op = "SetAttribute"
  /\ Last.attr = "is_conversation_active"
  /\ Last.raised = "AttributeError"
  /\ self.is_conversation_active

(***************************************************************************)
(* C14: constructing with an engine outside the available ones raises the  *)
(* configuration error (ValueError) and binds no instance; constructing    *)
(* with an available engine raises nothing and yields an empty transcript, *)
(* a false activity flag and empty message and reply logs.                 *)
(***************************************************************************)
C14_ConstructValidation ==
  /\ construct.engine \notin AvailableEngines
       => /\ construct.raised = "ValueError"
          /\ self = NoInstance
          /\ ~Made
  /\ construct.engine \in AvailableEngines
       => /\ construct.raised = ""
          /\ ~Made => /\ conversation(self) = EmptyStr
                      /\ ~self.is_conversation_active
                      /\ messages(self) = <<>>
                      /\ replies(self) = <<>>

C14_Witness ==
  /\ construct.engine \notin AvailableEngines
  /\ construct.raised = "ValueError"
  /\ self = NoInstance

(***************************************************************************)
(* C15: after a call that started the conversation, until the next start,  *)
(* every turn prefix rendered ends with, and every list of stop sequences  *)
(* passed to the provider has as second entry, the agent name the start    *)
(* template was rendered with, followed by a colon.                        *)
(***************************************************************************)
UsesAgentName(c, nm) ==
  /\ c.op = "RenderTurnPrefix" => IsSuffix(nm \o <<":">>, c.ret)
  /\ c.stop # <<>> => c.stop[2] = nm \o <<":">>

\* call i is the latest call up to j that started the conversation
LatestStart(i, j) ==
  /\ i <= j
  /\ calls[i].started
  /\ \A k \in i + 1 .. j : ~calls[k].started

C15_AgentNameImmutable ==
  \A i \in DOMAIN calls : \A j \in DOMAIN calls :
     LatestStart(i, j) => UsesAgentName(calls[j], calls[i].agent_name)

(***************************************************************************)
(* C19: every call leaves the message log and the reply log extended or    *)
(* unchanged (the log before the call is a prefix of the log after it),    *)
(* and the reply log is never longer than the message log.                 *)
(***************************************************************************)
C19_LogsGrowOnly ==
  Constructed =>
    /\ Len(replies(self)) <= Len(messages(self))
    /\ IsPrefix(messages(pre), messages(self))
    /\ IsPrefix(replies(pre), replies(self))

\* a call that replaces or resets the transcript found both logs non-empty
C19_Witness ==
  /\ Made
  /\ Last.op \in {"StartConversation", "SetConversation", "RequestSingleReply"}
  /\ Returned(Last)
  /\ replies(pre) # <<>>
  /\ messages(self) = messages(pre)
  /\ replies(self) = replies(pre)

(***************************************************************************)
(* C20: only set_agent_param and set_agent_params change the stored        *)
(* completion parameters.  A request that reaches the provider sends the   *)
(* stored parameters, with max_tokens replaced by max_response_length when *)
(* one is given, and leaves the stored mapping as it was.  set_agent_param *)
(* and set_agent_params write the named keys and leave every other key.    *)
(***************************************************************************)
ParameterSetters == {"SetAgentParam", "SetAgentParams"}

\* the keys of the stored parameters that a setter call names
NamedKeys(c) == IF c.op = "SetAgentParam" THEN {c.attr} ELSE DOMAIN c.value

\* the value a setter call gives to key k
NamedValue(c, k) == IF c.op = "SetAgentParam" THEN c.value ELSE c.value[k]

C20_ParameterFrame ==
  Made =>
    /\ Last.op \notin ParameterSetters
         => self.completion_params = pre.completion_params
    /\ (Last.op \in {"RequestReply", "RequestSingleReply"}
        /\ Last.prompt # None)
         => Last.params =
              [pre.completion_params EXCEPT
                 !.max_tokens = IF Last.max_response_length = 0
                                THEN @
                                ELSE Last.max_response_length]
    /\ Last.op \in ParameterSetters
         => /\ DOMAIN self.completion_params
                 = DOMAIN pre.completion_params \cup NamedKeys(Last)
            /\ \A k \in DOMAIN self.completion_params :
                  self.completion_params[k] =
                    IF k \in NamedKeys(Last)
                    THEN NamedValue(Last, k)
                    ELSE pre.completion_params[k]

\* a request with an override is followed by one without
C20_Witness ==
  /\ Len(calls) >= 2
  /\ calls[Len(calls) - 1].op \in {"RequestReply", "RequestSingleReply"}
  /\ calls[Len(calls) - 1].max_response_length = 5
  /\ calls[Len(calls) - 1].params.max_tokens = 5
  /\ Last.op = "RequestReply"
  /\ Last.max_response_length = 0
  /\ Last.params.max_tokens = 150

====
